---- MODULE Spec2Model ----
(***************************************************************************)
(* Model of dango's OAuth credential storage (src/dango/oauth/storage.py). *)
(*                                                                         *)
(* The backing file .dlt/secrets.toml is a variable holding the parsed     *)
(* TOML document.  A Python dict is a sequence of <<key, value>> pairs in  *)
(* insertion order; None is the empty tuple and a present optional value x *)
(* is <<x>>.  A datetime is a natural number and its ISO text is the       *)
(* record [isoformat |-> n], so that to_dict / from_dict are conversions.  *)
(***************************************************************************)
EXTENDS Integers, Sequences, FiniteSets, TLC

VARIABLES file, useEncryption, now, op, ret, pc, pending, flow, secrets, calc

vars == <<file, useEncryption, now, op, ret, pc, pending, flow, secrets, calc>>

\* The variables of the storage engine, of a provider flow, of a pure function.
storageVars == <<file, useEncryption, now, op, ret, pc, pending>>
flowVars == <<flow, secrets>>
calcVars == <<calc>>

\* The clock stops here (datetime.now() is unbounded in the program).
MaxTime == 1

\* The number of provider flows run one after the other.
MaxRuns == 2

\* The length of the identifiers that are sanitized.
MaxLen == 3

\* The hours, counted from the first one, in which a credential can expire
\* and in which it can be asked for its expiry.
MaxHours == 49

\* The number of sources that hold credentials in the secrets file.
MaxSources == 2

\* timedelta(days=60): the days a long-lived Facebook token is valid.
LongTokenDays == 60

\* timedelta.days counts whole days of 24 hours.
HoursPerDay == 24

None == <<>>
Some(x) == <<x>>

----------------------------------------------------------------------------
(* Python str: a text is the sequence of its characters *)

Lowercase == <<"a", "b", "c", "d", "e", "f", "g", "h", "i", "j", "k", "l", "m",
               "n", "o", "p", "q", "r", "s", "t", "u", "v", "w", "x", "y", "z">>
Uppercase == <<"A", "B", "C", "D", "E", "F", "G", "H", "I", "J", "K", "L", "M",
               "N", "O", "P", "Q", "R", "S", "T", "U", "V", "W", "X", "Y", "Z">>
Digits == {"0", "1", "2", "3", "4", "5", "6", "7", "8", "9"}
Whitespace == {" ", "\t", "\n"}

Range(s) == {s[i] : i \in 1..Len(s)}

RECURSIVE LStrip(_, _)
\* str.lstrip(chars)
LStrip(s, chars) ==
    IF s # <<>> /\ Head(s) \in chars THEN LStrip(Tail(s), chars) ELSE s

RECURSIVE RStrip(_, _)
\* str.rstrip(chars)
RStrip(s, chars) ==
    IF s # <<>> /\ s[Len(s)] \in chars THEN RStrip(SubSeq(s, 1, Len(s) - 1), chars)
    ELSE s

\* str.strip(chars); chars is Whitespace for strip().
Strip(s, chars) == RStrip(LStrip(s, chars), chars)

\* str.lower() of one ASCII character.
LowerChar(c) ==
    IF \E i \in 1..Len(Uppercase) : Uppercase[i] = c
    THEN Lowercase[CHOOSE i \in 1..Len(Uppercase) : Uppercase[i] = c]
    ELSE c

\* str.lower()
Lower(s) == [i \in 1..Len(s) |-> LowerChar(s[i])]

\* str.endswith(suffix)
EndsWith(s, suffix) ==
    /\ Len(s) >= Len(suffix)
    /\ SubSeq(s, Len(s) - Len(suffix) + 1, Len(s)) = suffix

----------------------------------------------------------------------------
(* Python dict, in insertion order *)

DictHas(d, k) == \E i \in 1..Len(d) : d[i][1] = k

DictGet(d, k) == d[CHOOSE i \in 1..Len(d) : d[i][1] = k][2]

\* d[k] = v appended at the end: what a list of pairs would do.
DictSetAppend(d, k, v) == Append(d, <<k, v>>)

\* d[k] = v: replaces the value in place when k is present, else adds k last.
DictSet(d, k, v) ==
    IF DictHas(d, k)
    THEN [i \in 1..Len(d) |-> IF d[i][1] = k THEN <<k, v>> ELSE d[i]]
    ELSE Append(d, <<k, v>>)

DictDelPair(p, k) == p[1] # k

\* del d[k]
DictDel(d, k) == SelectSeq(d, LAMBDA p : DictDelPair(p, k))

NoDuplicateKeys(d) == \A i, j \in 1..Len(d) : d[i][1] = d[j][1] => i = j

----------------------------------------------------------------------------
(* OAuthCredential *)

RequiredFields ==
    {"name", "provider", "identifier", "account_info", "credentials", "created_at"}

OptionalFields == {"expires_at", "last_used", "last_refreshed", "metadata"}

AllFields == RequiredFields \cup OptionalFields

TimestampFields == {"created_at", "expires_at", "last_used", "last_refreshed"}

\* datetime.isoformat() and datetime.fromisoformat()
IsoFormat(t) == [isoformat |-> t]
FromIsoFormat(s) == s.isoformat

\* OAuthCredential.to_dict: asdict, then every timestamp that is set as ISO text.
ToDict(c) ==
    [k \in AllFields |->
        IF k = "created_at" THEN IsoFormat(c[k])
        ELSE IF k \in TimestampFields
             THEN (IF c[k] = None THEN None ELSE Some(IsoFormat(c[k][1])))
             ELSE c[k]]

\* cls(**data) raises TypeError on a missing required or an unknown keyword.
FromDictRaises(data) ==
    \/ ~(RequiredFields \subseteq DOMAIN data)
    \/ ~(DOMAIN data \subseteq AllFields)

\* OAuthCredential.from_dict: ISO text back to datetime, absent optionals None.
FromDict(data) ==
    [k \in AllFields |->
        IF k \in DOMAIN data
        THEN LET v == IF k \in TimestampFields THEN FromIsoFormat(data[k]) ELSE data[k]
             IN  IF k \in OptionalFields THEN Some(v) ELSE v
        ELSE None]

----------------------------------------------------------------------------
(* toml and SecureTokenStorage *)

\* toml.dump of one table: a key whose value is None is not written.
TomlTable(d) ==
    [k \in {x \in DOMAIN d : ~(x \in OptionalFields /\ d[x] = None)} |->
        IF k \in OptionalFields THEN d[k][1] ELSE d[k]]

\* SecureTokenStorage.encrypt_token / decrypt_token
Encrypt(payload) == [ciphertext |-> payload]
DecryptRaises(blob) == "ciphertext" \notin DOMAIN blob
Decrypt(blob) == blob.ciphertext

Envelope(blob) == [_encrypted |-> TRUE, _data |-> blob]

\* isinstance(cred_data.get('credentials'), dict) and
\* cred_data['credentials'].get('_encrypted')
IsEnvelope(cd) ==
    /\ "credentials" \in DOMAIN cd
    /\ "_encrypted" \in DOMAIN cd.credentials
    /\ cd.credentials._encrypted = TRUE

\* cred_data['credentials']['_data'] raises KeyError, or decrypt_token raises.
DecryptStepRaises(cd) ==
    \/ "_data" \notin DOMAIN cd.credentials
    \/ DecryptRaises(cd.credentials._data)

\* cred_data['credentials'] = decrypt_token(cred_data['credentials']['_data'])
Decrypted(cd) == [cd EXCEPT !["credentials"] = Decrypt(cd.credentials._data)]

----------------------------------------------------------------------------
(* The document in .dlt/secrets.toml *)

EmptyDoc == [oauth |-> None, other |-> {}]

NoFile == [exists |-> FALSE, malformed |-> FALSE, doc |-> EmptyDoc]

EmptyFile == [exists |-> TRUE, malformed |-> FALSE, doc |-> EmptyDoc]

\* secrets['oauth'] of a loaded document that has the section
Section(doc) == doc.oauth[1]

\* The oauth section of the file as a dict, the empty dict when there is none.
Entries(f) ==
    IF f.exists /\ ~f.malformed /\ f.doc.oauth # None THEN Section(f.doc) ELSE <<>>

----------------------------------------------------------------------------
(* OAuthStorage *)

\* save, lines 172-175: the document loaded from a file that exists and is
\* not empty, else {}.
Load(f) == IF f.exists /\ f.doc # EmptyDoc THEN f.doc ELSE EmptyDoc

\* toml.load raises on text that is not a TOML document.
LoadRaises(f) == f.exists /\ f.malformed

\* The table written with the payload left as it is.
CredDataPlain(c, enc) == TomlTable(ToDict(c))

\* save, lines 182-190: the table written for a credential.
CredData(c, enc) ==
    LET d == ToDict(c)
    IN  TomlTable(IF enc
                  THEN [d EXCEPT !["credentials"] = Envelope(Encrypt(d["credentials"]))]
                  ELSE d)

\* A save that writes a document of its own, with nothing but the entry.
SaveDocFresh(doc, c, enc) ==
    [oauth |-> Some(<<<<c["name"], CredData(c, enc)>>>>), other |-> {}]

\* save, lines 177-193: the loaded document with the entry put under its name.
SaveDoc(doc, c, enc) ==
    LET section == IF doc.oauth = None THEN <<>> ELSE Section(doc)
    IN  [doc EXCEPT !.oauth = Some(DictSet(section, c["name"], CredData(c, enc)))]

\* save: its return value.
SaveRet(f) == ~LoadRaises(f)

\* save: the file it leaves.
SaveFile(f, c, enc) ==
    IF LoadRaises(f) THEN f
    ELSE [exists |-> TRUE, malformed |-> FALSE, doc |-> SaveDoc(Load(f), c, enc)]

\* from_dict under the try of get and of list: None when it raises.
FromDictOrNone(cd) == IF FromDictRaises(cd) THEN None ELSE Some(FromDict(cd))

\* The read of a table that hands an envelope on when there is no key.
ReadEntryNoKeyCheck(cd, enc) ==
    IF IsEnvelope(cd) /\ enc
    THEN IF DecryptStepRaises(cd) THEN None ELSE FromDictOrNone(Decrypted(cd))
    ELSE FromDictOrNone(cd)

\* get, lines 228-237: one stored table to a credential, None on any failure.
ReadEntry(cd, enc) ==
    IF IsEnvelope(cd)
    THEN IF enc
         THEN IF DecryptStepRaises(cd) THEN None ELSE FromDictOrNone(Decrypted(cd))
         ELSE None
    ELSE FromDictOrNone(cd)

\* get: None or the credential.
Get(f, enc, name) ==
    IF ~f.exists THEN None
    ELSE IF f.malformed THEN None
    ELSE IF f.doc.oauth = None \/ ~DictHas(Section(f.doc), name) THEN None
    ELSE ReadEntry(DictGet(Section(f.doc), name), enc)

\* if provider: None and "" both mean no filter.
Truthy(provider) == provider # None /\ provider[1] # ""

\* list, lines 265-266: the entry is passed over by the provider filter.
FilteredOut(cd, provider) ==
    /\ Truthy(provider)
    /\ ("provider" \notin DOMAIN cd \/ cd["provider"] # provider[1])

\* list, lines 269-272: the decryption of this entry raises, outside the inner try.
ListEntryRaises(cd, enc, provider) ==
    /\ ~FilteredOut(cd, provider)
    /\ IsEnvelope(cd)
    /\ enc
    /\ DecryptStepRaises(cd)

\* list, lines 263-282: what one entry adds to the result.
ListEntry(cd, enc, provider) ==
    IF FilteredOut(cd, provider) THEN <<>>
    ELSE IF IsEnvelope(cd)
         THEN IF enc THEN FromDictOrNone(Decrypted(cd)) ELSE <<>>
         ELSE FromDictOrNone(cd)

RECURSIVE ListLoop(_, _, _, _, _)
\* list, lines 262-288: the loop over the section; an exception that leaves
\* the loop is caught by the outer except, which returns [].
ListLoop(d, i, enc, provider, acc) ==
    IF i > Len(d) THEN acc
    ELSE IF ListEntryRaises(d[i][2], enc, provider) THEN <<>>
    ELSE ListLoop(d, i + 1, enc, provider, acc \o ListEntry(d[i][2], enc, provider))

\* list: the credentials returned.
List(f, enc, provider) ==
    IF ~f.exists THEN <<>>
    ELSE IF f.malformed THEN <<>>
    ELSE IF f.doc.oauth = None THEN <<>>
    ELSE ListLoop(Section(f.doc), 1, enc, provider, <<>>)

\* delete: its return value.
DeleteRet(f, name) ==
    /\ f.exists
    /\ ~f.malformed
    /\ f.doc.oauth # None
    /\ DictHas(Section(f.doc), name)

\* The document without the entry, the section kept when it is empty.
DeleteDocKeepsSection(doc, name) ==
    [doc EXCEPT !.oauth = Some(DictDel(Section(doc), name))]

\* delete, lines 311-316: the document without the entry, and without the
\* section when that was its last entry.
DeleteDoc(doc, name) ==
    LET rest == DictDel(Section(doc), name)
    IN  [doc EXCEPT !.oauth = IF rest = <<>> THEN None ELSE Some(rest)]

\* A delete that, like save, makes sure of the section and writes back
\* before it looks for the name.
DeleteFileEnsuresSection(f, name) ==
    IF DeleteRet(f, name) THEN [f EXCEPT !.doc = DeleteDoc(f.doc, name)]
    ELSE IF f.exists /\ ~f.malformed /\ f.doc.oauth = None
         THEN [f EXCEPT !.doc = [f.doc EXCEPT !.oauth = Some(<<>>)]]
         ELSE f

\* delete: the file it leaves.
DeleteFile(f, name) ==
    IF DeleteRet(f, name) THEN [f EXCEPT !.doc = DeleteDoc(f.doc, name)] ELSE f

\* A touch that also counts as a refresh.
TouchedAndRefreshed(c, t) ==
    [c EXCEPT !["last_used"] = Some(t), !["last_refreshed"] = Some(t)]

\* update_last_used: the credential it saves.
Touched(c, t) == [c EXCEPT !["last_used"] = Some(t)]

\* update_last_used: its return value.
UpdateLastUsedRet(f, enc, name) == Get(f, enc, name) # None /\ SaveRet(f)

\* update_last_used: the file it leaves.
UpdateLastUsedFile(f, enc, name, t) ==
    IF Get(f, enc, name) = None THEN f
    ELSE SaveFile(f, Touched(Get(f, enc, name)[1], t), enc)

\* find_by_provider_and_identifier: the first listed credential of the identifier.
FindByProviderAndIdentifier(f, enc, provider, identifier) ==
    LET creds == List(f, enc, Some(provider))
        hits == {i \in 1..Len(creds) : creds[i]["identifier"] = identifier}
    IN  IF hits = {} THEN None
        ELSE Some(creds[CHOOSE i \in hits : \A j \in hits : i <= j])

\* __init__, lines 121-126: the file is created empty when it is missing.
InitFile(f) == IF f.exists THEN f ELSE EmptyFile

----------------------------------------------------------------------------
(* Inputs *)

\* OAuthCredential(...): the dataclass, last_used and last_refreshed left None.
Credential(name, provider, identifier, payload, created, expires, metadata) ==
    [name |-> name, provider |-> provider, identifier |-> identifier,
     account_info |-> "account", credentials |-> payload, created_at |-> created,
     expires_at |-> expires, last_used |-> None, last_refreshed |-> None,
     metadata |-> metadata]

PayloadA == [access_token |-> "tokA"]
PayloadB == [access_token |-> "tokB"]
\* A payload that has a key named like the envelope's tag.
PayloadTagged == [_encrypted |-> TRUE]

Names == {"google_a", "shopify_b"}

SaveInputs ==
    {Credential("google_a", "google", "a@x.com", PayloadA, 0, None, None),
     Credential("google_a", "google", "a@x.com", PayloadB, 1, Some(1),
                Some([property_id |-> "p1"])),
     Credential("shopify_b", "shopify", "b.myshopify.com", PayloadB, 0, Some(1), None),
     Credential("shopify_b", "shopify", "b.myshopify.com", PayloadTagged, 0, None, None)}

\* list(provider): no filter, or the tag of a provider.
ProviderFilters == {None, Some("google"), Some("shopify")}

\* Tables another writer of the shared file can leave under a name: one whose
\* envelope holds a blob the key does not decrypt, one without created_at.
ForeignTables(name) ==
    LET base == CredData(CHOOSE c \in SaveInputs : c["name"] = name /\ c["created_at"] = 0,
                         FALSE)
    IN  {[base EXCEPT !["credentials"] = Envelope([garbage |-> TRUE])],
         [k \in DOMAIN base \ {"created_at"} |-> base[k]]}

----------------------------------------------------------------------------
(* State and operations *)

Operation(kind, name, cred, provider) ==
    [kind |-> kind, name |-> name, cred |-> cred, provider |-> provider]

Result(ok, creds) == [ok |-> ok, creds |-> creds]

Idle == pc = "idle"

\* No provider flow is running and nothing has been persisted by one.
NoFlow ==
    [provider |-> "", service |-> "", at |-> "idle", locals |-> <<>>,
     exchanges |-> 0, tests |-> 0, saves |-> 0, verified |-> FALSE,
     before |-> <<>>, returned |-> None, message |-> "", runs |-> 0]

InitFlow ==
    /\ flow = NoFlow
    /\ secrets = <<>>

\* No function has been applied.
InitCalc == calc = [fn |-> "none"]

\* OAuthStorage(project_root, use_encryption) on a project whose file is new.
InitStorage ==
    /\ file = EmptyFile
    /\ useEncryption \in BOOLEAN
    /\ now = 0
    /\ op = Operation("init", "", None, None)
    /\ ret = Result(TRUE, <<>>)
    /\ pc = "idle"
    /\ pending = [before |-> EmptyFile, after |-> EmptyFile]

Init == InitStorage /\ InitFlow /\ InitCalc

\* A later OAuthStorage(project_root, use_encryption) on the same project.
Reopen ==
    /\ Idle
    /\ \E enc \in BOOLEAN : useEncryption' = enc
    /\ file' = InitFile(file)
    /\ op' = Operation("init", "", None, None)
    /\ ret' = Result(TRUE, <<>>)
    /\ UNCHANGED <<now, pc, pending>>
    /\ UNCHANGED <<flowVars, calcVars>>

Save ==
    /\ Idle
    /\ \E c \in SaveInputs :
        /\ file' = SaveFile(file, c, useEncryption)
        /\ op' = Operation("save", c["name"], Some(c), None)
        /\ ret' = Result(SaveRet(file), <<>>)
    /\ UNCHANGED <<useEncryption, now, pc, pending>>
    /\ UNCHANGED <<flowVars, calcVars>>

\* A get that, like the constructor, makes the file when it is missing.
GetOpCreatesFile ==
    /\ Idle
    /\ \E name \in Names :
        /\ op' = Operation("get", name, None, None)
        /\ ret' = Result(Get(file, useEncryption, name) # None,
                         Get(file, useEncryption, name))
    /\ file' = InitFile(file)
    /\ UNCHANGED <<useEncryption, now, pc, pending>>
    /\ UNCHANGED <<flowVars, calcVars>>

GetOp ==
    /\ Idle
    /\ \E name \in Names :
        /\ op' = Operation("get", name, None, None)
        /\ ret' = Result(Get(file, useEncryption, name) # None,
                         Get(file, useEncryption, name))
    /\ UNCHANGED <<file, useEncryption, now, pc, pending>>
    /\ UNCHANGED <<flowVars, calcVars>>

ListOp ==
    /\ Idle
    /\ \E provider \in ProviderFilters :
        /\ op' = Operation("list", "", None, provider)
        /\ ret' = Result(TRUE, List(file, useEncryption, provider))
    /\ UNCHANGED <<file, useEncryption, now, pc, pending>>
    /\ UNCHANGED <<flowVars, calcVars>>

Delete ==
    /\ Idle
    /\ \E name \in Names :
        /\ file' = DeleteFile(file, name)
        /\ op' = Operation("delete", name, None, None)
        /\ ret' = Result(DeleteRet(file, name), <<>>)
    /\ UNCHANGED <<useEncryption, now, pc, pending>>
    /\ UNCHANGED <<flowVars, calcVars>>

\* find_by_provider_and_identifier(provider, identifier); the identifier is
\* kept in the operation's name field.
Identifiers == {"a@x.com", "b.myshopify.com"}

FindOp ==
    /\ Idle
    /\ \E provider \in {"google", "shopify"} : \E identifier \in Identifiers :
        /\ op' = Operation("find", identifier, None, Some(provider))
        /\ ret' = Result(
              FindByProviderAndIdentifier(file, useEncryption, provider, identifier) # None,
              FindByProviderAndIdentifier(file, useEncryption, provider, identifier))
    /\ UNCHANGED <<file, useEncryption, now, pc, pending>>
    /\ UNCHANGED <<flowVars, calcVars>>

UpdateLastUsed ==
    /\ Idle
    /\ \E name \in Names :
        /\ file' = UpdateLastUsedFile(file, useEncryption, name, now)
        /\ op' = Operation("update_last_used", name, None, None)
        /\ ret' = Result(UpdateLastUsedRet(file, useEncryption, name), <<>>)
    /\ UNCHANGED <<useEncryption, now, pc, pending>>
    /\ UNCHANGED <<flowVars, calcVars>>

\* datetime.now() moves on.
Tick ==
    /\ Idle
    /\ now < MaxTime
    /\ now' = now + 1
    /\ op' = Operation("tick", "", None, None)
    /\ ret' = Result(TRUE, <<>>)
    /\ UNCHANGED <<file, useEncryption, pc, pending>>
    /\ UNCHANGED <<flowVars, calcVars>>

External(f) ==
    /\ Idle
    /\ file' = f
    /\ op' = Operation("external", "", None, None)
    /\ ret' = Result(TRUE, <<>>)
    /\ UNCHANGED <<useEncryption, now, pc, pending>>
    /\ UNCHANGED <<flowVars, calcVars>>

\* Another writer of the shared file puts a table under a name of the section.
ExternalEntry ==
    /\ file.exists /\ ~file.malformed
    /\ \E name \in Names : \E t \in ForeignTables(name) :
        External([file EXCEPT !.doc = [file.doc EXCEPT !.oauth =
            Some(DictSet(Entries(file), name, t))]])

\* Another writer adds or drops the sections that are not this engine's.
ExternalSection ==
    /\ file.exists /\ ~file.malformed
    /\ \E other \in SUBSET {"sources"} :
        External([file EXCEPT !.doc = [file.doc EXCEPT !.other = other]])

\* The file is removed, or is left with text that is no TOML document.
ExternalDamage ==
    \/ file.exists /\ External(NoFile)
    \/ file.exists /\ ~file.malformed /\ External([file EXCEPT !.malformed = TRUE])

Next ==
    \/ Reopen
    \/ Save
    \/ GetOp
    \/ ListOp
    \/ FindOp
    \/ Delete
    \/ UpdateLastUsed
    \/ Tick
    \/ ExternalEntry
    \/ ExternalSection
    \/ ExternalDamage

Spec == Init /\ [][Next]_vars

----------------------------------------------------------------------------
(* The write-back of save and delete, step by step, and a process that stops *)

\* with open(self.secrets_file, 'w'): the file exists and is empty.
Truncated == EmptyFile

\* toml.dump(secrets, f) and the close of the file.
Written(doc) == [exists |-> TRUE, malformed |-> FALSE, doc |-> doc]

\* The text of the document written only in part: it does not load.
PartlyWritten(doc) == [exists |-> TRUE, malformed |-> TRUE, doc |-> doc]

\* save up to and including open(..., 'w').
SaveOpen ==
    /\ Idle
    /\ ~LoadRaises(file)
    /\ \E c \in SaveInputs :
        /\ pending' = [before |-> file,
                       after |-> Written(SaveDoc(Load(file), c, useEncryption))]
        /\ op' = Operation("save", c["name"], Some(c), None)
    /\ file' = Truncated
    /\ pc' = "writing"
    /\ ret' = Result(FALSE, <<>>)
    /\ UNCHANGED <<useEncryption, now>>
    /\ UNCHANGED <<flowVars, calcVars>>

\* delete of a stored name up to and including open(..., 'w').
DeleteOpen ==
    /\ Idle
    /\ \E name \in Names :
        /\ DeleteRet(file, name)
        /\ pending' = [before |-> file, after |-> Written(DeleteDoc(file.doc, name))]
        /\ op' = Operation("delete", name, None, None)
    /\ file' = Truncated
    /\ pc' = "writing"
    /\ ret' = Result(FALSE, <<>>)
    /\ UNCHANGED <<useEncryption, now>>
    /\ UNCHANGED <<flowVars, calcVars>>

\* toml.dump, the close of the file and return True.
WriteClose ==
    /\ pc = "writing"
    /\ file' = pending.after
    /\ pc' = "idle"
    /\ ret' = Result(TRUE, <<>>)
    /\ UNCHANGED <<useEncryption, now, op, pending>>
    /\ UNCHANGED <<flowVars, calcVars>>

\* The process stops inside the with block: nothing, or a part, is on disk.
Crash ==
    /\ pc = "writing"
    /\ file' \in {Truncated, PartlyWritten(pending.after.doc)}
    /\ pc' = "crashed"
    /\ UNCHANGED <<useEncryption, now, op, ret, pending>>
    /\ UNCHANGED <<flowVars, calcVars>>

\* The next invocation constructs its OAuthStorage.
Restart ==
    /\ pc = "crashed"
    /\ \E enc \in BOOLEAN : useEncryption' = enc
    /\ file' = InitFile(file)
    /\ pc' = "idle"
    /\ op' = Operation("init", "", None, None)
    /\ ret' = Result(TRUE, <<>>)
    /\ UNCHANGED <<now, pending>>
    /\ UNCHANGED <<flowVars, calcVars>>

\* A partly written file is repaired by hand: removed.
Repair ==
    /\ Idle
    /\ file.malformed
    /\ file' = NoFile
    /\ op' = Operation("external", "", None, None)
    /\ ret' = Result(TRUE, <<>>)
    /\ UNCHANGED <<useEncryption, now, pc, pending>>
    /\ UNCHANGED <<flowVars, calcVars>>

NextCrash ==
    \/ SaveOpen
    \/ DeleteOpen
    \/ WriteClose
    \/ Crash
    \/ Restart
    \/ Repair

SpecCrash == Init /\ [][NextCrash]_vars

----------------------------------------------------------------------------
(* Provider flows (src/dango/oauth/providers.py), one step per prompt or wait *)

\* Python locals: the name k is bound to v.
Bind(locals, k, v) == (k :> v) @@ locals

\* dict.get(k)
GetKey(d, k) == IF k \in DOMAIN d THEN Some(d[k]) ELSE None

\* What the user types at a prompt, before .strip().
PromptInputs == {<<>>, <<" ">>, <<" ", "x">>}

\* Prompt.ask(...).strip()
Ask(typed) == Strip(typed, Whitespace)

\* oauth_manager.save_oauth_credentials(source, credentials, config): the
\* credentials of the source are replaced by the ones given.
SaveOauthCredentials(s, source, credentials, config) ==
    DictSet(s, source, [credentials |-> credentials, config |-> config])

\* authenticate is entered: nothing is bound, nothing has been called.
Begin(provider, service, at) ==
    [provider |-> provider, service |-> service, at |-> at, locals |-> <<>>,
     exchanges |-> 0, tests |-> 0, saves |-> 0, verified |-> FALSE,
     before |-> secrets, returned |-> None, message |-> "", runs |-> flow.runs + 1]

\* return value, after the console message that goes with it.
Return(f, value, message) ==
    [f EXCEPT !.at = "done", !.returned = Some(value), !.message = message]

\* A prompt or a wait is pending.
Suspended == flow.at \notin {"idle", "done"}

\* A flow can be started: none is running, and the runs are not used up.
CanBegin == ~Suspended /\ flow.runs < MaxRuns

\* The step of the flow that stands at a position, of a provider.
At(provider, at) == flow.provider = provider /\ flow.at = at

\* oauth_manager.generate_state(): the nonces it can issue.
Nonces == {"n1", "n2"}

\* oauth_manager.start_oauth_flow: None on failure or timeout, else the query
\* of the redirect, which a forger can fill as it likes.
OauthResponses ==
    {None}
    \cup {Some([code |-> "code", state |-> n]) : n \in Nonces}
    \cup {Some([code |-> "code"]), Some([state |-> "n1"])}

\* Any returned state passes.
AnyState(oauth_response, state) == TRUE

\* authenticate, line 148: oauth_response.get('state') equals the state issued.
StateVerified(oauth_response, state) == GetKey(oauth_response, "state") = Some(state)

\* What the token endpoint answers: an error status or no answer at all, or a
\* JSON document with or without a refresh token.
TokenReplies ==
    {[raises |-> TRUE, json |-> <<>>],
     [raises |-> FALSE, json |-> [access_token |-> "at"]],
     [raises |-> FALSE, json |-> [access_token |-> "at", refresh_token |-> "rt"]]}

\* A token exchange that fills in an empty refresh token when none came.
ExchangeDegraded(reply) ==
    IF reply.raises THEN None
    ELSE Some(IF "refresh_token" \in DOMAIN reply.json THEN reply.json
              ELSE Bind(reply.json, "refresh_token", ""))

\* _exchange_code_for_tokens: the tokens, or None.
ExchangeCodeForTokens(reply) ==
    IF reply.raises THEN None
    ELSE IF "refresh_token" \notin DOMAIN reply.json THEN None
    ELSE Some(reply.json)

GoogleServices == {"google_ads", "google_analytics", "google_sheets"}

\* authenticate, lines 165-170: the credentials in dlt format.
GoogleCredentials(locals) ==
    [client_id |-> locals.client_id, client_secret |-> locals.client_secret,
     refresh_token |-> locals.tokens.refresh_token, project_id |-> <<>>]

\* authenticate, lines 181-184: the optional Google Ads keys.
GoogleAdsCredentials(locals) ==
    LET withToken == IF locals.dev_token # <<>>
                     THEN Bind(GoogleCredentials(locals), "developer_token",
                               locals.dev_token)
                     ELSE GoogleCredentials(locals)
    IN  IF locals.customer_id # <<>>
        THEN Bind(withToken, "customer_id", locals.customer_id)
        ELSE withToken

\* The flow saves its credentials once and returns True.
SaveAndReturn(f, credentials, config) ==
    /\ secrets' = SaveOauthCredentials(secrets, f.service, credentials, config)
    /\ flow' = Return([f EXCEPT !.saves = @ + 1], TRUE, "complete")

\* GoogleOAuthProvider(oauth_manager).authenticate(service) is called.
GoogleAuthenticate ==
    /\ CanBegin
    /\ \E service \in GoogleServices : flow' = Begin("google", service, "open_console")
    /\ UNCHANGED <<secrets, storageVars, calcVars>>

\* Confirm.ask("Open Google Cloud Console?") is answered.
GoogleOpenConsole ==
    /\ At("google", "open_console")
    /\ flow' = [flow EXCEPT !.at = "client_id"]
    /\ UNCHANGED <<secrets, storageVars, calcVars>>

\* Prompt.ask("Enter OAuth Client ID") is answered.
GoogleClientId ==
    /\ At("google", "client_id")
    /\ \E typed \in PromptInputs :
        flow' = [flow EXCEPT !.at = "client_secret",
                             !.locals = Bind(@, "client_id", Ask(typed))]
    /\ UNCHANGED <<secrets, storageVars, calcVars>>

\* Prompt.ask("Enter Client Secret") is answered; lines 119-141: both are
\* required, then the state is issued and the browser round trip started.
GoogleClientSecret ==
    /\ At("google", "client_secret")
    /\ \E typed \in PromptInputs : \E state \in Nonces :
        LET locals == Bind(flow.locals, "client_secret", Ask(typed))
        IN  flow' = IF locals.client_id = <<>> \/ locals.client_secret = <<>>
                    THEN Return([flow EXCEPT !.locals = locals], FALSE, "required")
                    ELSE [flow EXCEPT !.at = "start_oauth_flow",
                                      !.locals = Bind(locals, "state", state)]
    /\ UNCHANGED <<secrets, storageVars, calcVars>>

\* start_oauth_flow returns; lines 143-158: the response is checked and the
\* code sent to the token endpoint.
GoogleOauthResponse ==
    /\ At("google", "start_oauth_flow")
    /\ \E oauth_response \in OauthResponses :
        LET f == [flow EXCEPT !.locals = Bind(@, "oauth_response", oauth_response)]
        IN  flow' =
              IF oauth_response = None THEN Return(f, FALSE, "failed or timed out")
              ELSE IF ~StateVerified(oauth_response[1], flow.locals.state)
                   THEN Return(f, FALSE, "invalid state")
              ELSE IF "code" \notin DOMAIN oauth_response[1]
                   THEN Return([f EXCEPT !.verified = TRUE], FALSE, "error")
              ELSE [f EXCEPT !.verified = TRUE, !.at = "exchange",
                             !.exchanges = @ + 1]
    /\ UNCHANGED <<secrets, storageVars, calcVars>>

\* The token endpoint answers; lines 160-203: without tokens the flow fails,
\* with them it asks what the service needs, or saves at once.
GoogleTokens ==
    /\ At("google", "exchange")
    /\ \E reply \in TokenReplies :
        LET tokens == ExchangeCodeForTokens(reply)
            f == [flow EXCEPT !.locals = Bind(@, "response", reply)]
        IN  IF tokens = None
            THEN flow' = Return(f, FALSE, "exchange failed") /\ UNCHANGED secrets
            ELSE LET g == [f EXCEPT !.locals = Bind(@, "tokens", tokens[1])]
                 IN  CASE g.service = "google_ads" ->
                            flow' = [g EXCEPT !.at = "dev_token"] /\ UNCHANGED secrets
                       [] g.service = "google_analytics" ->
                            flow' = [g EXCEPT !.at = "property_id"] /\ UNCHANGED secrets
                       [] OTHER ->
                            SaveAndReturn(g, GoogleCredentials(g.locals), None)
    /\ UNCHANGED <<storageVars, calcVars>>

\* Prompt.ask("Developer Token") is answered.
GoogleDevToken ==
    /\ At("google", "dev_token")
    /\ \E typed \in PromptInputs :
        flow' = [flow EXCEPT !.at = "customer_id",
                             !.locals = Bind(@, "dev_token", Ask(typed))]
    /\ UNCHANGED <<secrets, storageVars, calcVars>>

\* Prompt.ask("Customer ID") is answered; lines 181-212.
GoogleCustomerId ==
    /\ At("google", "customer_id")
    /\ \E typed \in PromptInputs :
        LET f == [flow EXCEPT !.locals = Bind(@, "customer_id", Ask(typed))]
        IN  SaveAndReturn(f, GoogleAdsCredentials(f.locals), None)
    /\ UNCHANGED <<storageVars, calcVars>>

\* A property id step that, having saved with the config, goes on to the
\* save that every service ends with.
GooglePropertyIdFallsThrough ==
    /\ At("google", "property_id")
    /\ \E typed \in PromptInputs :
        LET f == [flow EXCEPT !.locals = Bind(@, "property_id", Ask(typed))]
        IN  IF f.locals.property_id # <<>>
            THEN /\ secrets' = SaveOauthCredentials(
                        SaveOauthCredentials(secrets, f.service, GoogleCredentials(f.locals),
                                             Some([property_id |-> f.locals.property_id])),
                        f.service, GoogleCredentials(f.locals), None)
                 /\ flow' = Return([f EXCEPT !.saves = @ + 2], TRUE, "complete")
            ELSE SaveAndReturn(f, GoogleCredentials(f.locals), None)
    /\ UNCHANGED <<storageVars, calcVars>>

\* Prompt.ask("GA4 Property ID") is answered; lines 190-212.
GooglePropertyId ==
    /\ At("google", "property_id")
    /\ \E typed \in PromptInputs :
        LET f == [flow EXCEPT !.locals = Bind(@, "property_id", Ask(typed))]
        IN  SaveAndReturn(f, GoogleCredentials(f.locals),
                          IF f.locals.property_id # <<>>
                          THEN Some([property_id |-> f.locals.property_id])
                          ELSE None)
    /\ UNCHANGED <<storageVars, calcVars>>

\* What the Graph API answers to the exchange: an error, or a JSON document
\* without a token, with an empty one, or with the long-lived one.
LongTokenReplies ==
    {[raises |-> TRUE, json |-> <<>>],
     [raises |-> FALSE, json |-> [error |-> "e"]],
     [raises |-> FALSE, json |-> [access_token |-> ""]],
     [raises |-> FALSE, json |-> [access_token |-> "long"]]}

\* _exchange_token: the long-lived token, or None.
ExchangeToken(reply) ==
    IF reply.raises THEN None
    ELSE IF GetKey(reply.json, "access_token") \in {None, Some("")} THEN None
    ELSE Some(reply.json.access_token)

\* FacebookOAuthProvider(oauth_manager).authenticate() is called.
FacebookAuthenticate ==
    /\ CanBegin
    /\ flow' = Begin("facebook", "facebook_ads", "open_explorer")
    /\ UNCHANGED <<secrets, storageVars, calcVars>>

\* Confirm.ask("Open Facebook Graph API Explorer?") is answered.
FacebookOpenExplorer ==
    /\ At("facebook", "open_explorer")
    /\ flow' = [flow EXCEPT !.at = "short_token"]
    /\ UNCHANGED <<secrets, storageVars, calcVars>>

\* Prompt.ask("Paste short-lived access token") is answered; lines 319-321.
FacebookShortToken ==
    /\ At("facebook", "short_token")
    /\ \E typed \in PromptInputs :
        LET f == [flow EXCEPT !.locals = Bind(@, "short_token", Ask(typed))]
        IN  flow' = IF f.locals.short_token = <<>> THEN Return(f, FALSE, "required")
                    ELSE [f EXCEPT !.at = "app_id"]
    /\ UNCHANGED <<secrets, storageVars, calcVars>>

\* Prompt.ask("Facebook App ID") is answered.
FacebookAppId ==
    /\ At("facebook", "app_id")
    /\ \E typed \in PromptInputs :
        flow' = [flow EXCEPT !.at = "app_secret",
                             !.locals = Bind(@, "app_id", Ask(typed))]
    /\ UNCHANGED <<secrets, storageVars, calcVars>>

\* Prompt.ask("Facebook App Secret") is answered; lines 330-336: both are
\* required, then the short-lived token is sent to the exchange endpoint.
FacebookAppSecret ==
    /\ At("facebook", "app_secret")
    /\ \E typed \in PromptInputs :
        LET f == [flow EXCEPT !.locals = Bind(@, "app_secret", Ask(typed))]
        IN  flow' = IF f.locals.app_id = <<>> \/ f.locals.app_secret = <<>>
                    THEN Return(f, FALSE, "required")
                    ELSE [f EXCEPT !.at = "exchange", !.exchanges = @ + 1]
    /\ UNCHANGED <<secrets, storageVars, calcVars>>

\* The exchange endpoint answers; lines 336-345.
FacebookLongToken ==
    /\ At("facebook", "exchange")
    /\ \E reply \in LongTokenReplies :
        LET long_token == ExchangeToken(reply)
            f == [flow EXCEPT !.locals = Bind(@, "response", reply)]
        IN  flow' = IF long_token = None THEN Return(f, FALSE, "exchange failed")
                    ELSE [f EXCEPT !.at = "account_id",
                                   !.locals = Bind(@, "long_token", long_token[1])]
    /\ UNCHANGED <<secrets, storageVars, calcVars>>

\* authenticate, lines 348-351.
FacebookCredentials(locals) ==
    [access_token |-> locals.long_token, account_id |-> locals.account_id]

\* Prompt.ask("Ad Account ID") is answered; lines 345-364: the credentials
\* are saved, and the expiry date is worked out for the message that follows.
FacebookAccountId ==
    /\ At("facebook", "account_id")
    /\ \E typed \in PromptInputs :
        LET f == [flow EXCEPT !.locals = Bind(@, "account_id", Ask(typed))]
            g == [f EXCEPT !.locals =
                     Bind(@, "expiry_date", now + LongTokenDays * HoursPerDay)]
        IN  SaveAndReturn(g, FacebookCredentials(f.locals), None)
    /\ UNCHANGED <<storageVars, calcVars>>

MyshopifyCom == <<".", "m", "y", "s", "h", "o", "p", "i", "f", "y", ".", "c", "o", "m">>

\* What is typed for the shop: nothing, a name, a whole shop URL.
ShopInputs == {<<>>, <<" ", "x">>, <<"s">> \o MyshopifyCom}

\* authenticate, lines 451-452: the shop URL is completed.
NormalizeShopUrl(shop_url) ==
    IF ~EndsWith(shop_url, MyshopifyCom) THEN shop_url \o MyshopifyCom ELSE shop_url

\* What the shop answers to GET shop.json: no answer or an error status
\* (raise_for_status), or the shop.
ShopReplies == {[raises |-> TRUE], [raises |-> FALSE]}

\* A connection test that is satisfied with any answer.
TestConnectionLenient(reply) == TRUE

\* _test_connection
TestConnection(reply) == ~reply.raises

\* ShopifyOAuthProvider(oauth_manager).authenticate() is called.
ShopifyAuthenticate ==
    /\ CanBegin
    /\ flow' = Begin("shopify", "shopify", "shop_url")
    /\ UNCHANGED <<secrets, storageVars, calcVars>>

\* Prompt.ask("Shop URL") is answered; lines 448-452.
ShopifyShopUrl ==
    /\ At("shopify", "shop_url")
    /\ \E typed \in ShopInputs :
        flow' = [flow EXCEPT !.at = "access_token",
                             !.locals = Bind(@, "shop_url", NormalizeShopUrl(Ask(typed)))]
    /\ UNCHANGED <<secrets, storageVars, calcVars>>

\* Prompt.ask("Admin API access token") is answered; lines 456-464: both are
\* required, then the connection is tested.
ShopifyAccessToken ==
    /\ At("shopify", "access_token")
    /\ \E typed \in PromptInputs :
        LET f == [flow EXCEPT !.locals = Bind(@, "access_token", Ask(typed))]
        IN  flow' = IF f.locals.shop_url = <<>> \/ f.locals.access_token = <<>>
                    THEN Return(f, FALSE, "required")
                    ELSE [f EXCEPT !.at = "test_connection", !.tests = @ + 1]
    /\ UNCHANGED <<secrets, storageVars, calcVars>>

\* authenticate, lines 470-473.
ShopifyCredentials(locals) ==
    [private_app_password |-> locals.access_token, shop_url |-> locals.shop_url]

\* The shop answers; lines 464-484.
ShopifyConnection ==
    /\ At("shopify", "test_connection")
    /\ \E reply \in ShopReplies :
        LET f == [flow EXCEPT !.locals = Bind(@, "response", reply)]
        IN  IF ~TestConnection(reply)
            THEN flow' = Return(f, FALSE, "connection test failed") /\ UNCHANGED secrets
            ELSE SaveAndReturn(f, ShopifyCredentials(f.locals), None)
    /\ UNCHANGED <<storageVars, calcVars>>

\* An interrupted flow that saves what it has gathered so far.
KeyboardInterruptSaves ==
    /\ Suspended
    /\ secrets' = SaveOauthCredentials(secrets, flow.service, flow.locals, None)
    /\ flow' = Return(flow, FALSE, "cancelled")
    /\ UNCHANGED <<storageVars, calcVars>>

\* except KeyboardInterrupt: the user interrupts a prompt or a wait.
KeyboardInterrupt ==
    /\ Suspended
    /\ flow' = Return(flow, FALSE, "cancelled")
    /\ UNCHANGED <<secrets, storageVars, calcVars>>

NextFlow ==
    \/ GoogleAuthenticate
    \/ GoogleOpenConsole
    \/ GoogleClientId
    \/ GoogleClientSecret
    \/ GoogleOauthResponse
    \/ GoogleTokens
    \/ GoogleDevToken
    \/ GoogleCustomerId
    \/ GooglePropertyId
    \/ FacebookAuthenticate
    \/ FacebookOpenExplorer
    \/ FacebookShortToken
    \/ FacebookAppId
    \/ FacebookAppSecret
    \/ FacebookLongToken
    \/ FacebookAccountId
    \/ ShopifyAuthenticate
    \/ ShopifyShopUrl
    \/ ShopifyAccessToken
    \/ ShopifyConnection
    \/ KeyboardInterrupt

SpecFlow == Init /\ [][NextFlow]_vars

----------------------------------------------------------------------------
(* Naming (storage.py, _sanitize_name and generate_oauth_name) *)

\* The characters the pattern [^a-zA-Z0-9_-] leaves alone.
Allowed == Range(Lowercase) \cup Range(Uppercase) \cup Digits \cup {"_", "-"}

\* re.sub(r'[^a-zA-Z0-9_-]', '_', name)
ReplaceInvalid(s) == [i \in 1..Len(s) |-> IF s[i] \in Allowed THEN s[i] ELSE "_"]

RECURSIVE CollapseUnderscores(_)
\* re.sub(r'__+', '_', sanitized): of a run of underscores one is left.
CollapseUnderscores(s) ==
    IF Len(s) < 2 THEN s
    ELSE IF s[1] = "_" /\ s[2] = "_" THEN CollapseUnderscores(Tail(s))
    ELSE <<s[1]>> \o CollapseUnderscores(Tail(s))

\* A sanitizer that leaves the case as it is.
SanitizeNameKeepsCase(name) == Strip(CollapseUnderscores(ReplaceInvalid(name)), {"_"})

\* A sanitizer that strips the underscores before it replaces.
SanitizeNameStripsFirst(name) ==
    Lower(CollapseUnderscores(ReplaceInvalid(Strip(name, {"_"}))))

\* _sanitize_name
SanitizeName(name) ==
    Lower(Strip(CollapseUnderscores(ReplaceInvalid(name)), {"_"}))

\* A name generator that looks for a free name in the store.
GenerateUniqueName(f, provider, identifier) ==
    LET base == provider \o <<"_">> \o SanitizeName(identifier)
    IN  IF DictHas(Entries(f), base) THEN base \o <<"_", "2">> ELSE base

\* generate_oauth_name, a method of the storage that holds the file f.
GenerateOauthName(f, provider, identifier) ==
    provider \o <<"_">> \o SanitizeName(identifier)

\* Characters of each kind: lower and upper case, digit, the two separators,
\* and two that the pattern replaces.
Chars == {"a", "Z", "7", "_", "-", "@", " "}

\* The texts of at most n characters.
Texts(n) == UNION {[1..k -> Chars] : k \in 0..n}

\* The provider tags "google" and "shopify".
ProviderTags == {<<"g", "o", "o", "g", "l", "e">>, <<"s", "h", "o", "p", "i", "f", "y">>}

\* A provider and an identifier are at hand; nothing has been called.
InitNaming ==
    /\ InitStorage
    /\ InitFlow
    /\ \E provider \in ProviderTags : \E identifier \in Texts(MaxLen) :
         calc = [fn |-> "input", provider |-> provider, identifier |-> identifier,
                 out |-> <<>>, previous |-> None]

\* storage._sanitize_name(identifier)
SanitizeNameCall ==
    /\ calc.fn = "input"
    /\ calc' = [calc EXCEPT !.fn = "_sanitize_name",
                            !.out = SanitizeName(calc.identifier)]
    /\ UNCHANGED <<storageVars, flowVars>>

\* storage._sanitize_name of what it has returned.
SanitizeNameAgain ==
    /\ calc.fn = "_sanitize_name"
    /\ calc' = [calc EXCEPT !.fn = "_sanitize_name again",
                            !.out = SanitizeName(calc.out),
                            !.previous = Some(calc.out)]
    /\ UNCHANGED <<storageVars, flowVars>>

\* storage.generate_oauth_name(provider, identifier), a first time or again.
GenerateOauthNameCall ==
    /\ calc.fn \in {"input", "generate_oauth_name", "save"}
    /\ calc.fn = "generate_oauth_name" => calc.previous = None
    /\ calc' = [calc EXCEPT !.fn = "generate_oauth_name",
                            !.out = GenerateOauthName(file, calc.provider, calc.identifier),
                            !.previous = IF calc.fn = "input" THEN None ELSE Some(calc.out)]
    /\ UNCHANGED <<storageVars, flowVars>>

\* storage.save of a credential under the generated name.
SaveGenerated ==
    /\ calc.fn = "generate_oauth_name"
    /\ ~DictHas(Entries(file), calc.out)
    /\ file' = SaveFile(file, Credential(calc.out, calc.provider, calc.identifier,
                                         PayloadA, 0, None, None), useEncryption)
    /\ calc' = [calc EXCEPT !.fn = "save"]
    /\ UNCHANGED <<useEncryption, now, op, ret, pc, pending, flowVars>>

NextNaming ==
    \/ SanitizeNameCall
    \/ SanitizeNameAgain
    \/ GenerateOauthNameCall
    \/ SaveGenerated

SpecNaming == InitNaming /\ [][NextNaming]_vars

\* Accounts of the two providers: two e-mail-like identifiers that differ in
\* one replaced character, and a third identifier.
Accounts ==
    ProviderTags \X {<<"a", "@", "b">>, <<"a", ".", "b">>, <<"c">>}

\* The credential of an account, under the name generated for it.
AccountCredential(f, account) ==
    Credential(GenerateOauthName(f, account[1], account[2]), account[1], account[2],
               PayloadA, 0, None, None)

InitAccounts ==
    /\ InitStorage
    /\ InitFlow
    /\ calc = [fn |-> "input", saved |-> {}]

\* storage.save of the credential of an account not saved before, under
\* storage.generate_oauth_name(provider, identifier).
SaveAccount ==
    /\ \E account \in Accounts \ calc.saved :
        LET c == AccountCredential(file, account)
        IN  /\ file' = SaveFile(file, c, useEncryption)
            /\ op' = Operation("save", c["name"], Some(c), None)
            /\ ret' = Result(SaveRet(file), <<>>)
            /\ calc' = [fn |-> "save", saved |-> calc.saved \cup {account}]
    /\ UNCHANGED <<useEncryption, now, pc, pending, flowVars>>

\* storage.get of the name generated for an account.
GetAccount ==
    /\ \E account \in Accounts :
        LET name == GenerateOauthName(file, account[1], account[2])
        IN  /\ op' = Operation("get", name, None, None)
            /\ ret' = Result(Get(file, useEncryption, name) # None,
                             Get(file, useEncryption, name))
    /\ calc' = [calc EXCEPT !.fn = "get"]
    /\ UNCHANGED <<file, useEncryption, now, pc, pending, flowVars>>

NextAccounts ==
    \/ SaveAccount
    \/ GetAccount

SpecAccounts == InitAccounts /\ [][NextAccounts]_vars

----------------------------------------------------------------------------
(* Expiry (storage.py, OAuthCredential), the time counted in whole hours *)

\* timedelta.days of a difference of d hours: the whole days, rounded down
\* also when d is negative.
TimedeltaDays(d) == d \div HoursPerDay

\* max(0, n)
Max0(n) == IF n > 0 THEN n ELSE 0

\* is_expired, at the time t
IsExpired(c, t) == c["expires_at"] # None /\ t >= c["expires_at"][1]

\* days_until_expiry, at the time t
DaysUntilExpiry(c, t) ==
    IF c["expires_at"] = None THEN None
    ELSE Some(Max0(TimedeltaDays(c["expires_at"][1] - t)))

\* A credential for which only a missing expiry counts as expiring soon.
IsExpiringSoonWithoutExpiry(c, t, days) ==
    DaysUntilExpiry(c, t) = None \/ DaysUntilExpiry(c, t)[1] <= days

\* is_expiring_soon(days), at the time t
IsExpiringSoon(c, t, days) ==
    LET days_left == DaysUntilExpiry(c, t)
    IN  days_left # None /\ days_left[1] <= days

\* The thresholds asked for: the default of 7 days, smaller ones, a negative one.
Thresholds == {-1, 0, 1, 2, 7}

\* Expiries a number of whole days ahead, beyond the hours counted one by one.
DaysAhead == {3, 59}

\* A credential with or without an expiry, at some hour.
InitExpiry ==
    /\ file = EmptyFile
    /\ useEncryption = FALSE
    /\ now \in 0..MaxHours
    /\ op = Operation("init", "", None, None)
    /\ ret = Result(TRUE, <<>>)
    /\ pc = "idle"
    /\ pending = [before |-> EmptyFile, after |-> EmptyFile]
    /\ InitFlow
    /\ \E expires \in {None} \cup {Some(t) : t \in 0..MaxHours}
                          \cup {Some(now + HoursPerDay * d) : d \in DaysAhead} :
         calc = [fn |-> "input",
                 cred |-> Credential("google_a", "google", "a@x.com", PayloadA, 0,
                                     expires, None),
                 out |-> None]

\* credential.is_expired()
IsExpiredCall ==
    /\ calc.fn = "input"
    /\ calc' = [calc EXCEPT !.fn = "is_expired",
                            !.out = Some(IsExpired(calc.cred, now))]
    /\ UNCHANGED <<storageVars, flowVars>>

\* credential.days_until_expiry()
DaysUntilExpiryCall ==
    /\ calc.fn = "input"
    /\ calc' = [calc EXCEPT !.fn = "days_until_expiry",
                            !.out = DaysUntilExpiry(calc.cred, now)]
    /\ UNCHANGED <<storageVars, flowVars>>

\* credential.is_expiring_soon(days)
IsExpiringSoonCall ==
    /\ calc.fn = "input"
    /\ \E days \in Thresholds :
        calc' = [fn |-> "is_expiring_soon", cred |-> calc.cred, days |-> days,
                 out |-> Some(IsExpiringSoon(calc.cred, now, days))]
    /\ UNCHANGED <<storageVars, flowVars>>

NextExpiry ==
    \/ IsExpiredCall
    \/ DaysUntilExpiryCall
    \/ IsExpiringSoonCall

SpecExpiry == InitExpiry /\ [][NextExpiry]_vars

----------------------------------------------------------------------------
(* Router (src/dango/oauth/router.py) *)

\* OAUTH_PROVIDER_MAP: source type to provider and service.
OauthProviderMap ==
    [google_ads |-> <<"google", Some("google_ads")>>,
     google_analytics |-> <<"google", Some("google_analytics")>>,
     google_sheets |-> <<"google", Some("google_sheets")>>,
     facebook_ads |-> <<"facebook", None>>,
     shopify |-> <<"shopify", None>>]

\* The source types asked for: those of the table and one it does not have.
SourceTypes == DOMAIN OauthProviderMap \cup {"stripe"}

\* secrets["sources"][source]: the table of keys the credentials of a source
\* were saved as.
SourceCreds(entry) == entry.credentials

\* cred_manager.load_secrets(): it raises, or returns the document, which has
\* a sources section when a source was saved, and may have an empty one.
LoadSecrets(s) ==
    {[raises |-> TRUE, sources |-> None], [raises |-> FALSE, sources |-> Some(s)]}
    \cup (IF s = <<>> THEN {[raises |-> FALSE, sources |-> None]} ELSE {})

\* The keys that make Google credentials complete.
GoogleOauthFields == {"client_id", "client_secret", "refresh_token"}

\* A check that is content with any one of the OAuth fields.
CheckAnyField(loaded, source_type) ==
    /\ ~loaded.raises
    /\ loaded.sources # None
    /\ \E g \in GoogleServices :
          /\ DictHas(loaded.sources[1], g)
          /\ GoogleOauthFields \cap DOMAIN SourceCreds(DictGet(loaded.sources[1], g)) # {}

\* check_oauth_credentials_exist, on what load_secrets gave.
CheckOauthCredentialsExist(loaded, source_type) ==
    IF loaded.raises THEN FALSE
    ELSE IF loaded.sources = None THEN FALSE
    ELSE LET sources == loaded.sources[1]
             Has(source, key) ==
                 /\ DictHas(sources, source)
                 /\ key \in DOMAIN SourceCreds(DictGet(sources, source))
         IN  IF source_type \in GoogleServices
             THEN \E g \in GoogleServices : \A k \in GoogleOauthFields : Has(g, k)
             ELSE IF source_type = "facebook_ads" THEN Has("facebook_ads", "access_token")
             ELSE IF source_type = "shopify" THEN Has("shopify", "private_app_password")
             ELSE FALSE

\* get_oauth_status_message: None, or which of the two messages.
GetOauthStatusMessage(loaded, source_type) ==
    IF source_type \notin DOMAIN OauthProviderMap THEN None
    ELSE Some(IF CheckOauthCredentialsExist(loaded, source_type)
              THEN "already configured" ELSE "not found")

\* Tables of keys found under a source: what a flow saves, or what was left
\* there by hand with a key missing.
SourceTables(source) ==
    IF source \in GoogleServices
    THEN {[client_id |-> "id", client_secret |-> "secret", refresh_token |-> "rt",
           project_id |-> ""],
          [client_id |-> "id", client_secret |-> "secret"],
          [refresh_token |-> "rt"]}
    ELSE IF source = "facebook_ads"
    THEN {[access_token |-> "long", account_id |-> "act"], [account_id |-> "act"]}
    ELSE {[private_app_password |-> "token", shop_url |-> "shop"], [shop_url |-> "shop"]}

\* The credentials of a source are written to the secrets file.
WriteSource ==
    /\ \E source \in DOMAIN OauthProviderMap : \E table \in SourceTables(source) :
        /\ DictHas(secrets, source) \/ Len(secrets) < MaxSources
        /\ secrets' = SaveOauthCredentials(secrets, source, table, None)
    /\ calc' = [fn |-> "write", source_type |-> "", out |-> None]
    /\ UNCHANGED <<flow, storageVars>>

\* check_oauth_credentials_exist(source_type, project_root)
CheckOauthCredentialsExistCall ==
    /\ \E source_type \in SourceTypes : \E loaded \in LoadSecrets(secrets) :
        calc' = [fn |-> "check_oauth_credentials_exist", source_type |-> source_type,
                 out |-> Some(CheckOauthCredentialsExist(loaded, source_type))]
    /\ UNCHANGED <<flowVars, storageVars>>

\* get_oauth_status_message(source_type, project_root)
GetOauthStatusMessageCall ==
    /\ \E source_type \in SourceTypes : \E loaded \in LoadSecrets(secrets) :
        calc' = [fn |-> "get_oauth_status_message", source_type |-> source_type,
                 out |-> GetOauthStatusMessage(loaded, source_type)]
    /\ UNCHANGED <<flowVars, storageVars>>

NextStatus ==
    \/ WriteSource
    \/ CheckOauthCredentialsExistCall
    \/ GetOauthStatusMessageCall

SpecStatus == Init /\ [][NextStatus]_vars

----------------------------------------------------------------------------
(* Two processes that call save on the same file *)

Procs == {1, 2}

\* The credentials the two processes save: the first a Google one, the second
\* a Shopify one.
RaceInputs(p) ==
    {c \in SaveInputs : c["name"] = IF p = 1 THEN "google_a" ELSE "shopify_b"}

\* Both processes have a storage on the file and are about to call save.
InitRace ==
    /\ InitStorage
    /\ InitFlow
    /\ \E c1 \in RaceInputs(1) : \E c2 \in RaceInputs(2) :
         calc = [fn |-> "save",
                 procs |-> [p \in Procs |->
                              [at |-> "call", cred |-> IF p = 1 THEN c1 ELSE c2,
                               secrets |-> EmptyDoc, ret |-> None]],
                 log |-> <<>>]

\* save, lines 172-175: the process loads the document; it returns False when
\* the load raises.
RaceLoad(p) ==
    /\ calc.procs[p].at = "call"
    /\ calc' = [calc EXCEPT
                  !.procs[p] = IF LoadRaises(file)
                               THEN [@ EXCEPT !.at = "returned", !.ret = Some(FALSE)]
                               ELSE [@ EXCEPT !.at = "loaded", !.secrets = Load(file)],
                  !.log = Append(@, <<p, "load">>)]
    /\ UNCHANGED <<storageVars, flowVars>>

\* A store that loads the document again and puts its entry into that.
RaceStoreReloads(p) ==
    /\ calc.procs[p].at = "loaded"
    /\ file' = SaveFile(file, calc.procs[p].cred, useEncryption)
    /\ calc' = [calc EXCEPT !.procs[p] = [@ EXCEPT !.at = "returned", !.ret = Some(TRUE)],
                            !.log = Append(@, <<p, "store">>)]
    /\ UNCHANGED <<useEncryption, now, op, ret, pc, pending, flowVars>>

\* save, lines 177-200: the process puts its entry into the document it has
\* loaded, writes that document and returns True.
RaceStore(p) ==
    /\ calc.procs[p].at = "loaded"
    /\ file' = Written(SaveDoc(calc.procs[p].secrets, calc.procs[p].cred, useEncryption))
    /\ calc' = [calc EXCEPT !.procs[p] = [@ EXCEPT !.at = "returned", !.ret = Some(TRUE)],
                            !.log = Append(@, <<p, "store">>)]
    /\ UNCHANGED <<useEncryption, now, op, ret, pc, pending, flowVars>>

NextRace ==
    \/ \E p \in Procs : RaceLoad(p)
    \/ \E p \in Procs : RaceStore(p)

SpecRace == InitRace /\ [][NextRace]_vars

----------------------------------------------------------------------------
(* Router (src/dango/oauth/router.py), run_oauth_for_source *)

\* A provider chain that sends every provider but google to the Shopify flow.
DispatchGoogleOrShopify(provider_name, service) ==
    IF provider_name = "google"
    THEN Begin("google", service[1], "open_console")
    ELSE Begin("shopify", "shopify", "shop_url")

\* Lines 51-61: the provider is made and its authenticate is entered.
Dispatch(provider_name, service) ==
    IF provider_name = "google"
    THEN Begin("google", service[1], "open_console")
    ELSE IF provider_name = "facebook"
    THEN Begin("facebook", "facebook_ads", "open_explorer")
    ELSE Begin("shopify", "shopify", "shop_url")

\* No call of run_oauth_for_source is waiting for its provider.
RouterIdle == IF calc.fn = "none" THEN TRUE ELSE calc.out # None

\* run_oauth_for_source(source_type, project_root) is called: lines 40-47 and
\* the entry into the provider's flow. What was there at the call is kept in
\* flow0 and secrets0.
RunOauthForSource ==
    /\ RouterIdle
    /\ ~Suspended
    /\ \E source_type \in SourceTypes :
        IF source_type \notin DOMAIN OauthProviderMap
        THEN /\ calc' = [fn |-> "run_oauth_for_source", source_type |-> source_type,
                         manager |-> FALSE, out |-> Some(FALSE),
                         flow0 |-> flow, secrets0 |-> secrets]
             /\ flow' = flow
        ELSE /\ flow.runs < MaxRuns
             /\ calc' = [fn |-> "run_oauth_for_source", source_type |-> source_type,
                         manager |-> TRUE, out |-> None,
                         flow0 |-> flow, secrets0 |-> secrets]
             /\ flow' = Dispatch(OauthProviderMap[source_type][1],
                                 OauthProviderMap[source_type][2])
    /\ UNCHANGED <<secrets, storageVars>>

\* return provider.authenticate(...), lines 53, 57 and 61.
RouterReturn ==
    /\ calc.fn = "run_oauth_for_source" /\ calc.out = None
    /\ flow.at = "done" /\ flow.returned # None
    /\ calc' = [calc EXCEPT !.out = flow.returned]
    /\ UNCHANGED <<flowVars, storageVars>>

\* Lines 67-69: an exception leaves the provider's authenticate, which ends
\* without a value, and is caught.
RouterExcept ==
    /\ calc.fn = "run_oauth_for_source" /\ calc.out = None
    /\ Suspended
    /\ flow' = [flow EXCEPT !.at = "done", !.message = "raised"]
    /\ calc' = [calc EXCEPT !.out = Some(FALSE)]
    /\ UNCHANGED <<secrets, storageVars>>

NextRouter ==
    \/ RunOauthForSource
    \/ RouterReturn
    \/ RouterExcept
    \/ GoogleOpenConsole
    \/ GoogleClientId
    \/ GoogleClientSecret
    \/ GoogleOauthResponse
    \/ GoogleTokens
    \/ GoogleDevToken
    \/ GoogleCustomerId
    \/ GooglePropertyId
    \/ FacebookOpenExplorer
    \/ FacebookShortToken
    \/ FacebookAppId
    \/ FacebookAppSecret
    \/ FacebookLongToken
    \/ FacebookAccountId
    \/ ShopifyShopUrl
    \/ ShopifyAccessToken
    \/ ShopifyConnection
    \/ KeyboardInterrupt

SpecRouter == Init /\ [][NextRouter]_vars

----------------------------------------------------------------------------
(* Properties *)

\* The stored table of a name that is in the section.
Stored(f, name) == DictGet(Entries(f), name)

\* C1: a successful save(c) immediately followed by get(c.name) on the same
\* store returns a credential equal to c in every field, the payload included.
C1_RoundTrip ==
    [][(op.kind = "save" /\ ret.ok /\ op'.kind = "get" /\ op'.name = op.name)
          => ret'.creds = op.cred]_vars

\* The stored table is the one written for credential c: its fields are
\* c's, the timestamps as ISO text, the payload in plaintext or in its envelope.
Holds(cd, c) ==
    /\ \A k \in {"name", "provider", "identifier", "account_info"} : cd[k] = c[k]
    /\ cd["created_at"] = IsoFormat(c["created_at"])
    /\ cd["credentials"] \in {c["credentials"], Envelope(Encrypt(c["credentials"]))}
    /\ \A k \in {"expires_at", "last_used", "last_refreshed"} :
         IF c[k] = None THEN k \notin DOMAIN cd
         ELSE k \in DOMAIN cd /\ cd[k] = IsoFormat(c[k][1])
    /\ IF c["metadata"] = None THEN "metadata" \notin DOMAIN cd
       ELSE "metadata" \in DOMAIN cd /\ cd["metadata"] = c["metadata"][1]

\* C2: the section never holds two entries of one name; a successful save of a
\* name already present replaces its entry where it stands (the number of
\* entries and every other entry stay), a save of an absent name adds exactly
\* one entry, and in both cases the entry holds the saved credential.
C2_Upsert ==
    /\ []NoDuplicateKeys(Entries(file))
    /\ [][(op'.kind = "save" /\ ret'.ok) =>
            LET before == Entries(file)
                after  == Entries(file')
                present == DictHas(before, op'.name)
            IN  /\ Len(after) = Len(before) + (IF present THEN 0 ELSE 1)
                /\ \A i \in 1..Len(before) :
                     after[i] = IF before[i][1] = op'.name
                                THEN <<op'.name, after[i][2]>>
                                ELSE before[i]
                /\ \E i \in 1..Len(after) :
                     /\ after[i][1] = op'.name
                     /\ Holds(after[i][2], op'.cred[1])
          ]_vars

\* C2 witness: a save has replaced the first of two entries in place.
C2_Witness ==
    /\ op.kind = "save" /\ ret.ok
    /\ Len(Entries(file)) = 2
    /\ Entries(file)[1][1] = op.name

C4_CrashAtomic == pc = "crashed" => file \in {pending.before, pending.after}

\* An entry list is to return: it passes the filter and reads on its own.
Listable(cd, enc, provider) ==
    /\ provider = None \/ ("provider" \in DOMAIN cd /\ cd["provider"] = provider[1])
    /\ ReadEntry(cd, enc) # None

\* C5: an entry that fails to decrypt or to deserialize is skipped by list,
\* which still returns every other entry that matches the filter and reads.
C5_ListIsolation ==
    op.kind = "list" =>
        \A i \in 1..Len(Entries(file)) :
            LET cd == Entries(file)[i][2]
            IN  Listable(cd, useEncryption, op.provider) =>
                    \E j \in 1..Len(ret.creds) :
                        ret.creds[j] = ReadEntry(cd, useEncryption)[1]

\* C6: list(p) returns exactly the readable entries whose provider is p, and
\* list() exactly the readable entries.
C6_ProviderFilter ==
    op.kind = "list" =>
        {ret.creds[j] : j \in 1..Len(ret.creds)} =
            {ReadEntry(Entries(file)[i][2], useEncryption)[1] :
                i \in {k \in 1..Len(Entries(file)) :
                          Listable(Entries(file)[k][2], useEncryption, op.provider)}}

\* C7: delete of a name that is not in the store returns false and leaves the
\* file, and so what list returns, as it was.
C7_DeleteAbsent ==
    [][(op'.kind = "delete" /\ ~DictHas(Entries(file), op'.name)) =>
            /\ ~ret'.ok
            /\ file' = file
            /\ \A p \in ProviderFilters :
                 List(file', useEncryption, p) = List(file, useEncryption, p)
      ]_vars

\* C7 witness: delete has returned false on a store that holds another entry.
C7_Witness ==
    /\ op.kind = "delete" /\ ~ret.ok
    /\ Len(Entries(file)) = 1
    /\ file.doc.other # {}

\* C8: delete of a name that is in the store returns true; afterwards get of
\* the name returns null, every other entry and section is unchanged, and the
\* oauth section is gone if and only if it has no entry left.
C8_DeletePresent ==
    [][(op'.kind = "delete" /\ DictHas(Entries(file), op'.name)) =>
            /\ ret'.ok
            /\ Get(file', useEncryption, op'.name) = None
            /\ ~DictHas(Entries(file'), op'.name)
            /\ \A n \in Names \ {op'.name} :
                 /\ DictHas(Entries(file'), n) <=> DictHas(Entries(file), n)
                 /\ DictHas(Entries(file), n) => Stored(file', n) = Stored(file, n)
            /\ file'.exists /\ ~file'.malformed
            /\ file'.doc.other = file.doc.other
            /\ file'.doc.oauth = None <=> Len(Entries(file)) = 1
            /\ file'.doc.oauth # None => Len(Section(file'.doc)) = Len(Entries(file)) - 1
      ]_vars

\* C8 witness: delete has removed the last entry and with it the section.
C8_Witness ==
    /\ op.kind = "delete" /\ ret.ok
    /\ file.doc.oauth = None
    /\ file.doc.other # {}

\* C9: get returns null and leaves the file as it is when the file is missing
\* or empty, has no oauth section, or has no entry under the name.
C9_GetAbsent ==
    [][(/\ op'.kind = "get"
        /\ \/ ~file.exists
           \/ file.doc = EmptyDoc
           \/ file.doc.oauth = None
           \/ ~DictHas(Section(file.doc), op'.name)) =>
            /\ ret'.creds = None
            /\ ~ret'.ok
            /\ file' = file
      ]_vars

\* C9 witness: get has returned null on a missing file.
C9_Witness == op.kind = "get" /\ ~file.exists /\ ret.creds = None

\* A payload that is the envelope, or the ciphertext of one.
Masked(payload) ==
    \/ "_encrypted" \in DOMAIN payload /\ payload._encrypted = TRUE
    \/ "ciphertext" \in DOMAIN payload

StateDiffers ==
    /\ flow.provider = "google"
    /\ "oauth_response" \in DOMAIN flow.locals
    /\ flow.locals.oauth_response # None
    /\ GetKey(flow.locals.oauth_response[1], "state") # Some(flow.locals.state)

\* C11: in the Google flow the token exchange is called only after the state
\* of the redirect was compared with the nonce issued in this run and found
\* equal; when they differ, authenticate returns False, the token exchange has
\* not been called and nothing has been persisted.
C11_StateBeforeExchange ==
    /\ (flow.provider = "google" /\ flow.exchanges > 0) =>
          /\ flow.verified
          /\ "oauth_response" \in DOMAIN flow.locals
          /\ flow.locals.oauth_response # None
          /\ GetKey(flow.locals.oauth_response[1], "state") = Some(flow.locals.state)
    /\ StateDiffers =>
          /\ flow.returned = Some(FALSE)
          /\ flow.exchanges = 0
          /\ flow.saves = 0
          /\ secrets = flow.before

\* C11 witness: a redirect that carries the other nonce has ended the flow.
C11_Witness ==
    /\ StateDiffers
    /\ "state" \in DOMAIN flow.locals.oauth_response[1]
    /\ "code" \in DOMAIN flow.locals.oauth_response[1]
    /\ flow.returned = Some(FALSE)
    /\ flow.message = "invalid state"

\* The token endpoint has answered with a document without a refresh token.
NoRefreshToken ==
    /\ flow.provider = "google"
    /\ "response" \in DOMAIN flow.locals
    /\ ~flow.locals.response.raises
    /\ "refresh_token" \notin DOMAIN flow.locals.response.json

\* C12: in the Google flow, whatever the service, a token response without a
\* refresh_token makes authenticate return False, and nothing is persisted in
\* that run.
C12_NoRefreshTokenFails ==
    NoRefreshToken =>
        /\ flow.service \in GoogleServices
        /\ flow.returned = Some(FALSE)
        /\ flow.saves = 0
        /\ secrets = flow.before

\* C12 witness: a Google Sheets run has failed for want of a refresh token, on
\* a store that holds the credentials of an earlier run.
C12_Witness ==
    /\ NoRefreshToken
    /\ flow.service = "google_sheets"
    /\ flow.returned = Some(FALSE)
    /\ secrets # <<>>

\* The shop has answered the connection test of this run.
Tested == flow.tests = 1 /\ "response" \in DOMAIN flow.locals

\* C13: in the Shopify flow a credential is persisted, and authenticate
\* returns True, only if the connection test was made in this run and passed;
\* when the test fails, authenticate returns False and nothing is persisted.
C13_LivenessBeforePersist ==
    flow.provider = "shopify" =>
        /\ (flow.saves > 0 \/ flow.returned = Some(TRUE) \/ secrets # flow.before) =>
              /\ Tested
              /\ ~flow.locals.response.raises
        /\ (Tested /\ flow.locals.response.raises) =>
              /\ flow.returned = Some(FALSE)
              /\ flow.saves = 0
              /\ secrets = flow.before

\* C13 witness: the connection test has failed on a store that holds the
\* credentials of an earlier run.
C13_Witness ==
    /\ flow.provider = "shopify"
    /\ Tested
    /\ flow.locals.response.raises
    /\ flow.returned = Some(FALSE)
    /\ secrets # <<>>

\* C14: in each of the three flows, an interrupt at a prompt or a wait makes
\* authenticate return False; no credential is persisted in that run and the
\* stored credentials are those from before the flow started.
C14_Cancellation ==
    [][(Suspended /\ flow'.message = "cancelled") =>
            /\ flow'.provider \in {"google", "facebook", "shopify"}
            /\ flow'.at = "done"
            /\ flow'.returned = Some(FALSE)
            /\ flow'.saves = 0
            /\ secrets' = secrets
            /\ secrets' = flow'.before
      ]_vars

\* C14 witness: a Google Ads run that holds its tokens is interrupted at the
\* last prompt, on a store that holds the credentials of an earlier run.
C14_Witness ==
    /\ flow.message = "cancelled"
    /\ flow.provider = "google"
    /\ "dev_token" \in DOMAIN flow.locals
    /\ flow.returned = Some(FALSE)
    /\ secrets # <<>>

\* C15: accounts with distinct (provider, identifier) pairs, each saved under
\* the name generate_oauth_name gives it, all stay retrievable: get of the name
\* of every saved account returns the credential of that account.
C15_CollisionSafe ==
    \A account \in calc.saved :
        LET c == Get(file, useEncryption,
                     GenerateOauthName(file, account[1], account[2]))
        IN  /\ c # None
            /\ c[1]["provider"] = account[1]
            /\ c[1]["identifier"] = account[2]

C17_SanitizeIdempotent ==
    calc.fn = "_sanitize_name again" => calc.out = calc.previous[1]

\* C17 witness: the second application on an input that the first one changed.
C17_Witness ==
    /\ calc.fn = "_sanitize_name again"
    /\ calc.identifier = <<"a", "@", "_">>
    /\ calc.out = <<"a">>

\* C18: generate_oauth_name returns provider + "_" + sanitize(identifier), the
\* same on a second call and whatever the store holds, and provider + "_" for
\* an identifier that is empty or sanitizes to the empty text.
C18_GenerateName ==
    calc.fn = "generate_oauth_name" =>
        /\ calc.out = calc.provider \o <<"_">> \o SanitizeName(calc.identifier)
        /\ calc.previous # None => calc.out = calc.previous[1]
        /\ Range(calc.identifier) \subseteq {"_", "@", " "} =>
              calc.out = calc.provider \o <<"_">>

\* C18 witness: the second call, for an identifier that sanitizes to the empty
\* text, after a credential was saved under the name of the first call.
C18_Witness ==
    /\ calc.fn = "generate_oauth_name"
    /\ calc.previous # None
    /\ calc.identifier = <<"@", "_">>
    /\ DictHas(Entries(file), calc.out)
    /\ calc.out[Len(calc.out)] = "_"

\* C19: once an entry exists under a name, a save or an update_last_used that
\* leaves an entry under that name leaves its created_at as it was.
C19_CreatedAtImmutable ==
    [][op'.kind \in {"save", "update_last_used"} =>
          \A n \in Names :
              (/\ DictHas(Entries(file), n)
               /\ DictHas(Entries(file'), n)
               /\ "created_at" \in DOMAIN Stored(file, n)) =>
                  /\ "created_at" \in DOMAIN Stored(file', n)
                  /\ Stored(file', n)["created_at"] = Stored(file, n)["created_at"]
      ]_vars

\* update_last_used alone leaves created_at as it was.
UpdateLastUsedKeepsCreatedAt ==
    [][op'.kind = "update_last_used" =>
          \A n \in Names :
              (/\ DictHas(Entries(file), n)
               /\ "created_at" \in DOMAIN Stored(file, n)) =>
                  /\ DictHas(Entries(file'), n)
                  /\ Stored(file', n)["created_at"] = Stored(file, n)["created_at"]
      ]_vars

\* The hours from now to the expiry of the credential that is asked.
HoursLeft == calc.cred["expires_at"][1] - now

\* C20: days_until_expiry returns null for a credential without expires_at,
\* and otherwise the days left rounded up, never less than 0: 1 for an expiry
\* 1 to 24 hours from now, 2 for 25 to 48 hours, 0 for now or the past.
C20_DaysRoundedUp ==
    calc.fn = "days_until_expiry" =>
        IF calc.cred["expires_at"] = None THEN calc.out = None
        ELSE /\ calc.out # None
             /\ HoursLeft <= 0 => calc.out[1] = 0
             /\ HoursLeft \in 1..24 => calc.out[1] = 1
             /\ HoursLeft \in 25..48 => calc.out[1] = 2
             /\ \A n \in 0..MaxHours :
                   (HoursLeft > HoursPerDay * n /\ HoursLeft <= HoursPerDay * (n + 1)) =>
                       calc.out[1] = n + 1

\* What holds of the code: null without expires_at, otherwise the whole days
\* left, rounded down, never less than 0.
DaysRoundedDown ==
    calc.fn = "days_until_expiry" =>
        IF calc.cred["expires_at"] = None THEN calc.out = None
        ELSE /\ calc.out # None
             /\ HoursLeft < HoursPerDay => calc.out[1] = 0
             /\ \A n \in 0..MaxHours :
                   (HoursLeft >= HoursPerDay * n /\ HoursLeft < HoursPerDay * (n + 1)) =>
                       calc.out[1] = n

\* C21: is_expiring_soon(threshold) is true if and only if expires_at is
\* present and 0 <= days_until_expiry() <= threshold, and false whenever
\* expires_at is absent; with the threshold 7 it is false for an expiry 59
\* days ahead and true for one 3 days ahead.
C21_ExpiringSoonIff ==
    calc.fn = "is_expiring_soon" =>
        LET days_left == DaysUntilExpiry(calc.cred, now)
        IN  /\ calc.out[1] <=> (/\ calc.cred["expires_at"] # None
                                /\ days_left # None
                                /\ 0 <= days_left[1]
                                /\ days_left[1] <= calc.days)
            /\ calc.cred["expires_at"] = None => ~calc.out[1]
            /\ (calc.cred["expires_at"] # None /\ calc.days = 7) =>
                  /\ HoursLeft = 59 * HoursPerDay => ~calc.out[1]
                  /\ HoursLeft = 3 * HoursPerDay => calc.out[1]

\* C21 witness: a credential without expiry has been asked and is not
\* expiring soon.
C21_Witness ==
    /\ calc.fn = "is_expiring_soon"
    /\ calc.cred["expires_at"] = None
    /\ calc.days = 7
    /\ calc.out = Some(FALSE)

\* A Google source holds a table with all three OAuth fields.
GoogleComplete(s) ==
    \E i \in 1..Len(s) :
        /\ s[i][1] \in GoogleServices
        /\ GoogleOauthFields \subseteq DOMAIN SourceCreds(s[i][2])

\* C22: for a Google source type, check_oauth_credentials_exist returns true
\* only if some stored Google record has all of client_id, client_secret and
\* refresh_token, and false if every Google record lacks one of them; neither
\* it nor get_oauth_status_message starts a flow or writes to the store.
C22_GoogleCompleteness ==
    [][(calc'.fn \in {"check_oauth_credentials_exist", "get_oauth_status_message"}) =>
            /\ (/\ calc'.fn = "check_oauth_credentials_exist"
                /\ calc'.source_type \in GoogleServices) =>
                  /\ calc'.out[1] => GoogleComplete(secrets)
                  /\ ~GoogleComplete(secrets) => ~calc'.out[1]
            /\ (/\ calc'.fn = "get_oauth_status_message"
                /\ calc'.source_type \in GoogleServices
                /\ ~GoogleComplete(secrets)) => calc'.out = Some("not found")
            /\ flow' = flow
            /\ secrets' = secrets
            /\ file' = file
      ]_vars

\* C22 witness: the check has returned false for Google Ads on a store whose
\* only Google record has the client id and secret and no refresh token.
C22_Witness ==
    /\ calc.fn = "check_oauth_credentials_exist"
    /\ calc.source_type = "google_ads"
    /\ calc.out = Some(FALSE)
    /\ \E i \in 1..Len(secrets) :
          /\ secrets[i][1] = "google_ads"
          /\ DOMAIN SourceCreds(secrets[i][2]) = {"client_id", "client_secret"}

\* C23: the credential a successful Facebook flow has persisted records its
\* expiry, expires_at = now + 60 days.
C23_FacebookExpiresAt ==
    (flow.provider = "facebook" /\ flow.returned = Some(TRUE)) =>
        /\ DictHas(secrets, "facebook_ads")
        /\ LET saved == DictGet(secrets, "facebook_ads")
               expiry == now + LongTokenDays * HoursPerDay
           IN  \/ "expires_at" \in DOMAIN saved /\ saved.expires_at = expiry
               \/ /\ "expires_at" \in DOMAIN saved.credentials
                  /\ saved.credentials.expires_at = expiry

\* C24: update_last_used(name) returns false and leaves the file as it is
\* when get(name) returns null; otherwise it returns true and the entry under
\* the name, where it stood, reads as before but for last_used, which is the
\* current time; every other entry and section is unchanged.
C24_UpdateLastUsedFrame ==
    [][op'.kind = "update_last_used" =>
          LET before == Get(file, useEncryption, op'.name)
          IN  IF before = None
              THEN ~ret'.ok /\ file' = file
              ELSE /\ ret'.ok
                   /\ Get(file', useEncryption, op'.name) # None
                   /\ LET after == Get(file', useEncryption, op'.name)[1]
                      IN  /\ after["last_used"] = Some(now)
                          /\ \A k \in DOMAIN after \ {"last_used"} :
                                after[k] = before[1][k]
                   /\ Len(Entries(file')) = Len(Entries(file))
                   /\ \A i \in 1..Len(Entries(file)) :
                        /\ Entries(file')[i][1] = Entries(file)[i][1]
                        /\ Entries(file)[i][1] # op'.name =>
                              Entries(file')[i] = Entries(file)[i]
                   /\ file'.doc.other = file.doc.other
      ]_vars

\* C24 witness: update_last_used has touched, at a later time, the first of two
\* entries, one that has an expiry and metadata.
C24_Witness ==
    /\ op.kind = "update_last_used" /\ ret.ok
    /\ now = 1
    /\ Len(Entries(file)) = 2
    /\ Entries(file)[1][1] = op.name
    /\ "metadata" \in DOMAIN Entries(file)[1][2]
    /\ "expires_at" \in DOMAIN Entries(file)[1][2]

\* The place of a step of a process in the order of the steps taken.
StepOf(p, step) == CHOOSE i \in 1..Len(calc.log) : calc.log[i] = <<p, step>>

\* Both saves have returned True.
BothSaved == \A p \in Procs : calc.procs[p].ret = Some(TRUE)

\* C25: save holds no lock between its load and its store: when two saves of
\* different names on one file have both returned True, the entry of one is in
\* the document exactly if it stored last or the other loaded after it had
\* stored; so when both load before either stores, only the entry of the one
\* that stored last is left.
C25_LostUpdate ==
    BothSaved =>
        \A p \in Procs : \A q \in Procs \ {p} :
            /\ DictHas(Entries(file), calc.procs[p].cred["name"])
                 <=> \/ StepOf(p, "store") > StepOf(q, "store")
                     \/ StepOf(q, "load") > StepOf(p, "store")
            /\ (StepOf(p, "load") < StepOf(q, "store")
                /\ StepOf(q, "load") < StepOf(p, "store")) =>
                    Len(Entries(file)) = 1

\* C25 witness: both saves have loaded before either stored and both have
\* returned True, and the document holds only the second one's entry.
C25_Witness ==
    /\ BothSaved
    /\ calc.log = <<<<1, "load">>, <<2, "load">>, <<1, "store">>, <<2, "store">>>>
    /\ Len(Entries(file)) = 1
    /\ Entries(file)[1][1] = "shopify_b"

\* The run has ended in failure with no exchange, no connection test and
\* nothing persisted.
FailedBeforeAnyCall ==
    /\ flow.returned = Some(FALSE)
    /\ flow.exchanges = 0
    /\ flow.tests = 0
    /\ flow.saves = 0
    /\ secrets = flow.before

Bound(k) == k \in DOMAIN flow.locals

\* Google: the client id or the client secret is empty after trimming.
MissingInputGoogle ==
    (/\ flow.provider = "google"
     /\ Bound("client_secret")
     /\ (flow.locals.client_id = <<>> \/ flow.locals.client_secret = <<>>))
        => FailedBeforeAnyCall

\* Facebook: the short-lived token, the app id or the app secret is empty.
MissingInputFacebook ==
    /\ (flow.provider = "facebook" /\ Bound("short_token")
        /\ flow.locals.short_token = <<>>) => FailedBeforeAnyCall
    /\ (flow.provider = "facebook" /\ Bound("app_secret")
        /\ (flow.locals.app_id = <<>> \/ flow.locals.app_secret = <<>>))
          => FailedBeforeAnyCall

\* Shopify: the access token is empty.
MissingInputShopifyToken ==
    (flow.provider = "shopify" /\ Bound("access_token")
     /\ flow.locals.access_token = <<>>) => FailedBeforeAnyCall

\* Shopify: the shop URL typed is empty after trimming, so that the shop URL
\* the flow goes on with is the bare suffix.
MissingInputShopifyUrl ==
    (flow.provider = "shopify" /\ Bound("access_token")
     /\ flow.locals.shop_url = MyshopifyCom) => FailedBeforeAnyCall

\* C26: in every flow, when a required input is empty after trimming,
\* authenticate returns False without any token exchange or connection test
\* and without persisting; an empty Shopify shop URL included.
C26_MissingInputTerminal ==
    /\ MissingInputGoogle
    /\ MissingInputFacebook
    /\ MissingInputShopifyToken
    /\ MissingInputShopifyUrl

\* The operations of the storage other than delete.
KeepingKinds == {"init", "save", "get", "list", "find", "update_last_used"}

\* get, list and find_by_provider_and_identifier leave the file as it is.
ReadsLeaveFile ==
    [][op'.kind \in {"get", "list", "find"} => file' = file]_vars

\* No operation other than delete removes an entry, expired or not.
OnlyDeleteRemoves ==
    [][op'.kind \in KeepingKinds =>
          \A name \in Names :
              DictHas(Entries(file), name) => DictHas(Entries(file'), name)]_vars

\* get returns the entry it reads also when the entry has expired.
ExpiredGot ==
    (op.kind = "get" /\ DictHas(Entries(file), op.name)) =>
        LET read == ReadEntry(Stored(file, op.name), useEncryption)
        IN  (read # None /\ IsExpired(read[1], now)) => ret.creds = read

\* list() returns every entry that reads, also when it has expired.
ExpiredListed ==
    (op.kind = "list" /\ op.provider = None) =>
        \A i \in 1..Len(Entries(file)) :
            LET read == ReadEntry(Entries(file)[i][2], useEncryption)
            IN  (read # None /\ IsExpired(read[1], now)) =>
                    \E j \in 1..Len(ret.creds) : ret.creds[j] = read[1]

\* An expired entry is in the store and has just been read by get.
ExpiredGotReached ==
    /\ op.kind = "get" /\ ret.creds # None
    /\ IsExpired(ret.creds[1], now)

\* C27: get, list and find_by_provider_and_identifier never modify the file,
\* no operation other than delete(name) removes an entry, and an expired
\* entry is still returned by get and by list.
C27_NoImplicitRemoval ==
    /\ ReadsLeaveFile
    /\ OnlyDeleteRemoves
    /\ []ExpiredGot
    /\ []ExpiredListed

\* A call of run_oauth_for_source has been made with this source type.
Routed(source_type) ==
    calc.fn = "run_oauth_for_source" /\ calc.source_type = source_type

\* What the call has returned is the flow's value, False when the flow ended
\* without one.
RouterResult ==
    calc.out # None =>
        /\ flow.at = "done"
        /\ calc.out = IF flow.returned # None THEN flow.returned ELSE Some(FALSE)

\* C28: run_oauth_for_source with a source type that is not in the table
\* returns False with no manager made, no flow started and nothing persisted;
\* with a known source type it enters the flow of the provider the table
\* names, the three Google types with their service, and returns the flow's
\* result, False when the flow raises.
C28_Routing ==
    \A source_type \in SourceTypes :
        Routed(source_type) =>
            IF source_type \notin DOMAIN OauthProviderMap
            THEN /\ calc.out = Some(FALSE)
                 /\ ~calc.manager
                 /\ flow = calc.flow0
                 /\ secrets = calc.secrets0
            ELSE /\ calc.manager
                 /\ flow.runs = calc.flow0.runs + 1
                 /\ flow.provider = OauthProviderMap[source_type][1]
                 /\ OauthProviderMap[source_type][2] # None =>
                        flow.service = OauthProviderMap[source_type][2][1]
                 /\ RouterResult

\* A Facebook source has been routed and its flow has returned True.
C28_Witness ==
    /\ Routed("facebook_ads")
    /\ calc.out = Some(TRUE)
    /\ flow.provider = "facebook"

\* The entry of a name in the oauth section of a file, None when it has none.
EntryOf(f, name) ==
    IF DictHas(Entries(f), name) THEN Some(Stored(f, name)) ELSE None

\* C29: a successful save or delete leaves every section other than oauth,
\* and every oauth entry other than the one named, as it was; a save on a
\* missing or empty file leaves a document that has the oauth section with
\* that one entry and nothing else.
C29_SaveDeleteFrame ==
    [][(op'.kind \in {"save", "delete"} /\ ret'.ok) =>
          /\ file'.doc.other = file.doc.other
          /\ \A name \in Names \ {op'.name} :
                EntryOf(file', name) = EntryOf(file, name)
          /\ (op'.kind = "save" /\ (~file.exists \/ file.doc = EmptyDoc)) =>
                /\ file'.doc.other = {}
                /\ Len(Entries(file')) = 1
                /\ Entries(file')[1][1] = op'.name]_vars

\* A save has succeeded on a file that has another section and another entry.
C29_Witness ==
    /\ op.kind = "save" /\ ret.ok
    /\ file.doc.other # {}
    /\ \E name \in Names \ {op.name} : DictHas(Entries(file), name)

\* A delete has succeeded on a file that keeps another section and an entry.
DeleteKeepsOthersReached ==
    /\ op.kind = "delete" /\ ret.ok
    /\ file.doc.other # {}
    /\ Len(Entries(file)) = 1

\* The messages of a run that fails on missing input, on the redirect, on the
\* state, on the exchange or on the connection test.
FailureMessages ==
    {"required", "failed or timed out", "invalid state", "exchange failed",
     "connection test failed"}

\* C30: a run of authenticate makes at most one persist call and at most one
\* exchange or connection test; it returns True only after exactly one
\* persist call, and a run that fails on missing input, on the redirect, on
\* the state, on the exchange or on the connection test has persisted nothing.
C30_SingleAttempt ==
    /\ flow.saves <= 1
    /\ flow.exchanges + flow.tests <= 1
    /\ flow.returned = Some(TRUE) => flow.saves = 1
    /\ (flow.returned = Some(FALSE) /\ flow.message \in FailureMessages) =>
            /\ flow.saves = 0
            /\ secrets = flow.before

\* A second run has returned True after its exchange, having saved once over
\* what the first run persisted.
C30_Witness ==
    /\ flow.runs = 2
    /\ flow.returned = Some(TRUE)
    /\ flow.exchanges = 1
    /\ flow.saves = 1
    /\ flow.before # <<>>

\* A run has failed after its one exchange or connection test.
FailedAfterCallReached ==
    /\ flow.returned = Some(FALSE)
    /\ flow.message \in {"exchange failed", "connection test failed"}
    /\ flow.exchanges + flow.tests = 1

====
